---------------------------- MODULE Spec2Model ----------------------------
(***************************************************************************)
(* Model of src/V2X-Main.cc: the ns-3 scenario script of the V2X          *)
(* simulation.  main() is a sequential program; its position is pc and    *)
(* each action below is one statement block or one loop iteration of      *)
(* main().  The ns-3 objects the script manipulates are modelled by the   *)
(* fields the script reads and writes: the TrafficControlLayer of a node, *)
(* the root QueueDisc of a device, the ArpCache of an Ipv4Interface, and  *)
(* the simulator's event list.                                            *)
(*                                                                        *)
(* The event list itself (ordering of events, Stop, Run) is ns-3 library  *)
(* code that is not part of the repository; NextEvent and EventLess follow*)
(* the (time, sequence) order of spec section 4.1 and are recorded as     *)
(* such in MODEL_MAP.json.  The spec's NodeQueue, Medium, FlowStats and    *)
(* event cancellation have no counterpart in the source (no queue, medium *)
(* or Cancel call is written in it) and are not modelled.                 *)
(***************************************************************************)
EXTENDS Integers, Sequences, FiniteSets

\* ---------------------------------------------------------------- bounds
MaxVehicles == 3
MaxSimTime == 9
MaxIfaces == 2
TicksPerSecond == 2

\* ------------------------------------------------------ program constants
sendStart == 1

VARIABLES
    pc,               \* position in main()
    nVehicles,        \* --nVehicles (line 84, 93)
    simTime,          \* --simTime (line 85, 94), in ticks
    nIfaces,          \* ipv4proto->GetNInterfaces() of a node
    outIface,         \* index of the interface bound to the wifi device
    tcLayer,          \* node -> has an aggregated TrafficControlLayer
    rootQd,           \* device -> number of root QueueDiscs installed
    arpCache,         \* vehicle -> interface -> set of ARP entries
    i,                \* loop index of the loop main() is in
    devicesToInstall, \* NetDeviceContainer devicesToInstall (line 172)
    installCalled,    \* tch.Install(devicesToInstall) was called (line 199)
    events,           \* the simulator's pending events
    nextUid,          \* the simulator's next event uid (scheduling order)
    now,              \* Simulator::Now(), in ticks
    stop,             \* the simulator's stop flag
    scheduled,        \* every event ever scheduled, in scheduling order
    dispatched,       \* every event dispatched so far, in dispatch order
    sendLog           \* one record per executed SendPacket

vars == <<pc, nVehicles, simTime, nIfaces, outIface, tcLayer, rootQd, arpCache,
          i, devicesToInstall, installCalled, events, nextUid, now, stop,
          scheduled, dispatched, sendLog>>

\* ----------------------------------------------------------------- nodes
Vehicles == 0 .. (nVehicles - 1)
RsuIndex == nVehicles
Devices == 0 .. nVehicles

\* Seconds(x) for a whole number of seconds x, in ticks.
Seconds(x) == x * TicksPerSecond

\* ipv4.Assign(devices) hands out 10.1.1.1, 10.1.1.2, ... in container order;
\* the model keeps the host part.
IpOf(d) == d + 1
\* Mac48Address of device d (allocated in container order).
MacOf(d) == d + 1

rsuMac == MacOf(RsuIndex)
rsuIp == IpOf(RsuIndex)

\* ------------------------------------------------------------- ARP cache
\* The cache built at lines 153-157: one entry rsuIp -> rsuMac, permanent.
PrepopulatedCache == {[ip |-> rsuIp, mac |-> rsuMac, state |-> "PERMANENT"]}

\* Mutant of ArpCachesFor: the inner loop starts at interface 1.
ArpCachesSkipFirst(old, n) ==
    [j \in 0 .. (n - 1) |-> IF j = 0 THEN old[j] ELSE PrepopulatedCache]

\* The inner loop at lines 159-163: every interface j gets the cache.
ArpCachesFor(old, n) == [j \in 0 .. (n - 1) |-> PrepopulatedCache]

\* An address resolves at once when the cache holds a permanent entry for it.
ArpResolved(cache, ip) ==
    \E e \in cache : e.ip = ip /\ e.state = "PERMANENT" /\ e.mac = MacOf(ip - 1)

\* ------------------------------------------------------------ event list
\* Order of dispatch: by time, then by scheduling sequence.
EventLess(a, b) == a.ts < b.ts \/ (a.ts = b.ts /\ a.uid < b.uid)

\* Mutant of NextEvent: among equal times the latest scheduled goes first.
NextEventLifo(evs) ==
    CHOOSE e \in evs :
        \A f \in evs : f = e \/ e.ts < f.ts \/ (e.ts = f.ts /\ e.uid > f.uid)

\* The event the simulator dispatches next.
NextEvent(evs) == CHOOSE e \in evs : \A f \in evs : f = e \/ EventLess(e, f)

\* Simulator::Schedule(delay, ...) called at time t: the event is due at
\* t + delay and takes the next uid u.  veh is the index of the vehicle whose
\* socket the closure captured; the captured vehId is veh + 1 (line 224).
NewEvent(t, delay, u, kind, veh) ==
    [ts |-> t + delay, uid |-> u, kind |-> kind, veh |-> veh, vehId |-> veh + 1]

\* ------------------------------------------------------------------ Init
Init ==
    /\ pc = "internet"
    /\ nVehicles \in 0 .. MaxVehicles
    /\ simTime \in 0 .. MaxSimTime
    /\ nIfaces = 0
    /\ outIface = 0
    /\ tcLayer = [n \in Devices |-> FALSE]
    /\ rootQd = [d \in Devices |-> 0]
    /\ arpCache = [v \in Vehicles |-> << >>]
    /\ i = 0
    /\ devicesToInstall = << >>
    /\ installCalled = FALSE
    /\ events = {}
    /\ nextUid = 0
    /\ now = 0
    /\ stop = FALSE
    /\ scheduled = << >>
    /\ dispatched = << >>
    /\ sendLog = << >>

\* lines 137-138: internet.Install(allNodes) aggregates the IP stack and a
\* TrafficControlLayer on every node.
InternetInstall ==
    /\ pc = "internet"
    /\ tcLayer' = [n \in Devices |-> TRUE]
    /\ pc' = "assign"
    /\ UNCHANGED <<nVehicles, simTime, nIfaces, outIface, rootQd, arpCache, i,
                   devicesToInstall, installCalled, events, nextUid, now, stop,
                   scheduled, dispatched, sendLog>>

\* lines 140-142: ipv4.Assign(devices) adds the wifi interface to every node
\* (each interface starts with an empty ARP cache).  Whether the library also
\* installs its default root QueueDisc on a device is not decided by the
\* script, so every outcome S (the devices that got one) is allowed; the
\* number of interfaces of a node and the index of the wifi interface are
\* the library's too.
Ipv4Assign ==
    /\ pc = "assign"
    /\ \E n \in 1 .. MaxIfaces, o \in 0 .. (MaxIfaces - 1), S \in SUBSET Devices :
        /\ o < n
        /\ nIfaces' = n
        /\ outIface' = o
        /\ rootQd' = [d \in Devices |-> IF d \in S THEN 1 ELSE 0]
        /\ arpCache' = [v \in Vehicles |-> [j \in 0 .. (n - 1) |-> {}]]
    /\ pc' = "arp"
    /\ i' = 0
    /\ UNCHANGED <<nVehicles, simTime, tcLayer, devicesToInstall, installCalled,
                   events, nextUid, now, stop, scheduled, dispatched, sendLog>>

\* lines 149-166: one iteration of the ARP pre-population loop.
ArpPrepopulate ==
    /\ pc = "arp"
    /\ i < nVehicles
    /\ arpCache' = [arpCache EXCEPT ![i] = ArpCachesFor(arpCache[i], nIfaces)]
    /\ i' = i + 1
    /\ UNCHANGED <<pc, nVehicles, simTime, nIfaces, outIface, tcLayer, rootQd,
                   devicesToInstall, installCalled, events, nextUid, now, stop,
                   scheduled, dispatched, sendLog>>

\* line 149 (loop exit) and lines 169-172.
ArpDone ==
    /\ pc = "arp"
    /\ i = nVehicles
    /\ pc' = "tc"
    /\ i' = 0
    /\ devicesToInstall' = << >>
    /\ UNCHANGED <<nVehicles, simTime, nIfaces, outIface, tcLayer, rootQd,
                   arpCache, installCalled, events, nextUid, now, stop,
                   scheduled, dispatched, sendLog>>

\* Mutant of AlreadyHas: the check for an existing root QueueDisc is missing.
AlreadyHasNever(d) == FALSE

\* lines 177-186: alreadyHas for device d.
AlreadyHas(d) == IF tcLayer[d] THEN rootQd[d] > 0 ELSE FALSE

\* lines 173-195: one iteration of the devicesToInstall loop.
TcCheck ==
    /\ pc = "tc"
    /\ i < nVehicles + 1
    /\ devicesToInstall' =
          IF ~AlreadyHas(i) THEN Append(devicesToInstall, i) ELSE devicesToInstall
    /\ i' = i + 1
    /\ UNCHANGED <<pc, nVehicles, simTime, nIfaces, outIface, tcLayer, rootQd,
                   arpCache, installCalled, events, nextUid, now, stop,
                   scheduled, dispatched, sendLog>>

DevSet(s) == {s[k] : k \in 1 .. Len(s)}

\* lines 197-206: tch.Install(devicesToInstall) when the container is not
\* empty.  TrafficControlHelper::Install aborts the program on a device that
\* already has a root QueueDisc.
TcInstall ==
    /\ pc = "tc"
    /\ i = nVehicles + 1
    /\ IF Len(devicesToInstall) > 0
       THEN /\ installCalled' = TRUE
            /\ IF \E d \in DevSet(devicesToInstall) : rootQd[d] > 0
               THEN /\ pc' = "abort"
                    /\ rootQd' = rootQd
               ELSE /\ pc' = "schedule"
                    /\ rootQd' = [d \in Devices |->
                                    IF d \in DevSet(devicesToInstall)
                                    THEN rootQd[d] + 1 ELSE rootQd[d]]
       ELSE /\ installCalled' = FALSE
            /\ pc' = "schedule"
            /\ rootQd' = rootQd
    /\ i' = 0
    /\ UNCHANGED <<nVehicles, simTime, nIfaces, outIface, tcLayer, arpCache,
                   devicesToInstall, events, nextUid, now, stop, scheduled,
                   dispatched, sendLog>>

\* lines 221-234: one iteration of the send scheduling loop: two sends of
\* vehicle i, at sendStart + i and sendStart + i + 1 seconds.
ScheduleSends ==
    /\ pc = "schedule"
    /\ i < nVehicles
    /\ LET tsend == sendStart + i
           e1 == NewEvent(now, Seconds(tsend), nextUid, "send", i)
           e2 == NewEvent(now, Seconds(tsend + 1), nextUid + 1, "send", i)
       IN /\ events' = events \cup {e1, e2}
          /\ scheduled' = scheduled \o <<e1, e2>>
    /\ nextUid' = nextUid + 2
    /\ i' = i + 1
    /\ UNCHANGED <<pc, nVehicles, simTime, nIfaces, outIface, tcLayer, rootQd,
                   arpCache, devicesToInstall, installCalled, now, stop,
                   dispatched, sendLog>>

\* line 221 (loop exit); lines 236-246 attach traces and change no modelled
\* state.
ScheduleDone ==
    /\ pc = "schedule"
    /\ i = nVehicles
    /\ pc' = "stop"
    /\ UNCHANGED <<nVehicles, simTime, nIfaces, outIface, tcLayer, rootQd,
                   arpCache, i, devicesToInstall, installCalled, events, nextUid,
                   now, stop, scheduled, dispatched, sendLog>>

\* Mutant of SimulatorStop: the Simulator::Stop call is missing.
SimulatorStopMissing ==
    /\ pc = "stop"
    /\ pc' = "run"
    /\ UNCHANGED <<nVehicles, simTime, nIfaces, outIface, tcLayer, rootQd,
                   arpCache, i, devicesToInstall, installCalled, events, nextUid,
                   now, stop, scheduled, dispatched, sendLog>>

\* line 249: Simulator::Stop(Seconds(simTime)) schedules the stop event at
\* now + simTime.  It is scheduled after every send (lines 221-234), so a send
\* due exactly at simTime precedes it in (time, sequence) order.
SimulatorStop ==
    /\ pc = "stop"
    /\ LET e == NewEvent(now, simTime, nextUid, "stop", RsuIndex)
       IN /\ events' = events \cup {e}
          /\ scheduled' = Append(scheduled, e)
    /\ nextUid' = nextUid + 1
    /\ pc' = "run"
    /\ UNCHANGED <<nVehicles, simTime, nIfaces, outIface, tcLayer, rootQd,
                   arpCache, i, devicesToInstall, installCalled, now, stop,
                   dispatched, sendLog>>

\* lines 49-55: SendPacket of vehicle v at time t; the record keeps whether
\* the destination rsuIp resolved in the ARP cache of the outgoing interface.
SendPacket(v, vehId, t) ==
    [veh |-> v, vehId |-> vehId, time |-> t,
     resolved |-> ArpResolved(arpCache[v][outIface], rsuIp)]

\* line 250: one event of Simulator::Run: the next event is removed, the
\* clock moves to its time and its action runs (a send at lines 227-229 or
\* 231-233, or the stop).
ProcessOneEvent ==
    /\ pc = "run"
    /\ events # {}
    /\ ~stop
    /\ LET e == NextEvent(events)
       IN /\ events' = events \ {e}
          /\ now' = e.ts
          /\ dispatched' = Append(dispatched, e)
          /\ stop' = (e.kind = "stop")
          /\ sendLog' = IF e.kind = "send"
                        THEN Append(sendLog, SendPacket(e.veh, e.vehId, e.ts))
                        ELSE sendLog
    /\ UNCHANGED <<pc, nVehicles, simTime, nIfaces, outIface, tcLayer, rootQd,
                   arpCache, i, devicesToInstall, installCalled, nextUid,
                   scheduled>>

\* lines 250-259: Simulator::Run returns; the flow monitor is written and the
\* simulator destroyed.
RunReturn ==
    /\ pc = "run"
    /\ (events = {} \/ stop)
    /\ pc' = "done"
    /\ UNCHANGED <<nVehicles, simTime, nIfaces, outIface, tcLayer, rootQd,
                   arpCache, i, devicesToInstall, installCalled, events, nextUid,
                   now, stop, scheduled, dispatched, sendLog>>

Next ==
    \/ InternetInstall
    \/ Ipv4Assign
    \/ ArpPrepopulate
    \/ ArpDone
    \/ TcCheck
    \/ TcInstall
    \/ ScheduleSends
    \/ ScheduleDone
    \/ SimulatorStop
    \/ ProcessOneEvent
    \/ RunReturn

Spec == Init /\ [][Next]_vars


\* ------------------------------------------------------------ properties
\* Position of event e in the order of the Schedule calls.
SchedIndex(e) == CHOOSE k \in 1 .. Len(scheduled) : scheduled[k] = e

\* Number of times event e has been dispatched.
DispatchCount(e) ==
    Cardinality({k \in 1 .. Len(dispatched) : dispatched[k] = e})

ScheduledSet == {scheduled[k] : k \in 1 .. Len(scheduled)}

C9_ArpPrepopulated ==
    /\ ((\E e \in events : e.kind = "send") \/ Len(sendLog) > 0
          \/ pc \in {"stop", "run", "done"})
        => \A v \in Vehicles : \A j \in 0 .. (nIfaces - 1) :
             [ip |-> IpOf(nVehicles), mac |-> MacOf(nVehicles),
              state |-> "PERMANENT"] \in arpCache[v][j]
    /\ \A k \in 1 .. Len(sendLog) : sendLog[k].resolved

\* C9 witness: vehicle 0's first send, at 1.0 s, ran on a node with two
\* interfaces and resolved the RSU address.
C9_Witness ==
    /\ nIfaces >= 2
    /\ nVehicles >= 2
    /\ \E k \in 1 .. Len(sendLog) :
         /\ sendLog[k].veh = 0
         /\ sendLog[k].vehId = 1
         /\ sendLog[k].time = Seconds(sendStart)
         /\ sendLog[k].resolved

\* C10: a device is in devicesToInstall exactly when its node has no
\* TrafficControlLayer or the layer has no root QueueDisc for it, Install is
\* called only on a non-empty container and never on a device that has a
\* root QueueDisc, and after the step every device has exactly one.
C10_NoDuplicateQueueDisc ==
    /\ pc = "tc" =>
         /\ DevSet(devicesToInstall) \subseteq 0 .. (i - 1)
         /\ \A d \in 0 .. (i - 1) :
              d \in DevSet(devicesToInstall) <=> (~tcLayer[d] \/ rootQd[d] = 0)
    /\ installCalled => Len(devicesToInstall) > 0
    /\ pc # "abort"
    /\ \A d \in Devices : rootQd[d] <= 1
    /\ pc \in {"schedule", "stop", "run", "done"} =>
         \A d \in Devices : rootQd[d] = 1

\* C10 witness: the step is over, Install was called for some devices and
\* skipped for at least one that already had a root QueueDisc.
C10_Witness ==
    /\ pc = "schedule"
    /\ installCalled
    /\ Len(devicesToInstall) > 0
    /\ Len(devicesToInstall) < nVehicles + 1
    /\ \A d \in Devices : rootQd[d] = 1

=============================================================================
